---------------------------- MODULE Spec2Model ----------------------------
(***************************************************************************)
(* Budget decomposition (src/solution.py): find_decomposition and the      *)
(* functions it calls, as a state machine over the states of section 4.6   *)
(* of the specification.                                                   *)
(*                                                                         *)
(* Arithmetic.  The code divides the total budget by the number of         *)
(* citizens n.  Budgets are integers here, and every amount the code       *)
(* derives from them (share, remaining capacity, matrix cell) is a         *)
(* multiple of 1/n, so amounts are held exactly as integer counts of 1/n   *)
(* (InUnits): the division total/n is then the exact integer division of   *)
(* n*total by n, and +, -, min, <, <= and = on amounts are the code's.     *)
(* A row sum differs from the share by a multiple of 1/n, so the           *)
(* verifier's |row - share| < 1e-9 is equality.                            *)
(***************************************************************************)
EXTENDS Integers, Sequences, FiniteSets

\* Bounds of the inputs explored.
MaxN == 3
MaxS == 2
MaxBudget == 2

VARIABLES
    budget,               \* input: subject index -> amount
    preferences,          \* input: citizen index -> set of subject indices
    pc,                   \* state of section 4.6
    path,                 \* "none", "basic" or "general": which branch of find_decomposition ran
    result,               \* "pending", "None" or "matrix" (the matrix is decomposition)
    share_per_citizen,    \* local of find_decomposition, in units of 1/n
    decomposition,        \* the matrix, cells in units of 1/n; <<>> before it is created
    j,                    \* loop variable of find_decomposition line 110
    interested_citizens,  \* local of allocate_budget_for_subject
    subject_budget,       \* local of allocate_budget_for_subject, in units of 1/n
    pos                   \* position of the loop of line 38 in interested_citizens

vars == <<budget, preferences, pc, path, result, share_per_citizen, decomposition,
          j, interested_citizens, subject_budget, pos>>

----------------------------------------------------------------------------
\* Helpers

Min(a, b) == IF a <= b THEN a ELSE b

\* range(k)
Range(k) == 0 .. (k - 1)

\* len(x) of a list indexed from 0
Len0(f) == Cardinality(DOMAIN f)

\* sum(f[x] for x in D)
RECURSIVE SumOver(_, _)
SumOver(f, D) ==
    IF D = {} THEN 0
    ELSE LET x == CHOOSE y \in D : TRUE
         IN  f[x] + SumOver(f, D \ {x})

\* sum(row) of a list
Sum(row) == SumOver(row, DOMAIN row)

\* The number of units of 1/n in one: n, and 1 when there is no citizen.
Unit(n) == IF n = 0 THEN 1 ELSE n

\* An integer amount of the input as a count of units of 1/n.
InUnits(x, n) == x * Unit(n)

----------------------------------------------------------------------------
\* The functions of src/solution.py

\* lines 3-6: (total_budget, share_per_citizen), both in units of 1/n
calculate_total_budget_and_share(b, n) ==
    LET total_budget == InUnits(Sum(b), n)
    IN  <<total_budget, IF n # 0 THEN total_budget \div n ELSE 0>>

\* A find_interested_citizens that visits the citizens in descending order.
find_interested_citizens_descending(prefs, subject_index, n) ==
    SelectSeq([p \in 1 .. n |-> n - p], LAMBDA i : subject_index \in prefs[i])

\* A find_interested_citizens that forgets the membership test.
find_interested_citizens_everyone(prefs, subject_index, n) ==
    [p \in 1 .. n |-> p - 1]

\* lines 8-9: the citizens that prefer subject_index, ascending
find_interested_citizens(prefs, subject_index, n) ==
    SelectSeq([p \in 1 .. n |-> p - 1], LAMBDA i : subject_index \in prefs[i])

\* line 33 without the amounts already allocated.
total_possible_share_of_empty_rows(share, dec, interested) ==
    share * Len(interested)

\* line 33: sum(share_per_citizen - sum(decomposition[i]) for i in interested_citizens)
total_possible_share(share, dec, interested) ==
    SumOver([p \in 1 .. Len(interested) |-> share - Sum(dec[interested[p]])],
            1 .. Len(interested))

\* line 43 without the cap of the citizen's remaining capacity.
possible_allocation_uncapped(max_possible_allocation, remaining) ==
    remaining

\* line 43: min(max_possible_allocation, subject_budget)
possible_allocation(max_possible_allocation, remaining) ==
    Min(max_possible_allocation, remaining)

\* lines 49-50
verify_allocation(dec, share) ==
    \A i \in DOMAIN dec : Sum(dec[i]) = share

\* line 69 alone.
is_basic_case_func_budget_only(b, prefs) ==
    Sum(b) >= Len0(prefs)

\* lines 52-71
is_basic_case_func(b, prefs) ==
    LET num_subjects == Len0(b)
        subjects_interested_count ==
            [s \in Range(num_subjects) |->
                Cardinality({i \in DOMAIN prefs : s \in prefs[i]})]
        has_unique_preferences ==
            \A s \in Range(num_subjects) : subjects_interested_count[s] = 1
        has_sufficient_budget == Sum(b) >= Len0(prefs)
    IN  has_unique_preferences /\ has_sufficient_budget

\* A check that never finds an empty preference set.
check_if_no_pref_never(prefs) == FALSE

\* lines 84-90
check_if_no_pref_then_return_None(prefs) ==
    \E i \in DOMAIN prefs : Cardinality(prefs[i]) = 0

\* line 76 and line 108: the zero matrix
ZeroMatrix(n, s) == [i \in Range(n) |-> [c \in Range(s) |-> 0]]

\* lines 73-82, given the element next(iter(...)) yields for each citizen.
\* Every preferred_subject is written with budget[preferred_subject].
calc_decomposition_for_basic_case(b, prefs, first) ==
    LET num_citizens == Len0(prefs)
    IN  [i \in Range(num_citizens) |->
            [c \in Range(Len0(b)) |->
                IF c = first[i] THEN InUnits(b[c], num_citizens) ELSE 0]]

----------------------------------------------------------------------------
\* The inputs: n <= MaxN citizens, s <= MaxS subjects, budgets 0 .. MaxBudget,
\* preference sets any subsets of the subject indices.

Init ==
    /\ \E n \in 0 .. MaxN, s \in 0 .. MaxS :
          /\ budget \in [Range(s) -> 0 .. MaxBudget]
          /\ preferences \in [Range(n) -> SUBSET Range(s)]
    /\ pc = "START"
    /\ path = "none"
    /\ result = "pending"
    /\ share_per_citizen = 0
    /\ decomposition = << >>
    /\ j = 0
    /\ interested_citizens = << >>
    /\ subject_budget = 0
    /\ pos = 0

N == Len0(preferences)
S == Len0(budget)

\* lines 96-97
FailEmptyPref ==
    /\ pc = "START"
    /\ check_if_no_pref_then_return_None(preferences)
    /\ pc' = "FAIL_EMPTY_PREF"
    /\ result' = "None"
    /\ UNCHANGED <<budget, preferences, path, share_per_citizen, decomposition,
                   j, interested_citizens, subject_budget, pos>>

\* lines 102-104.  next(iter(s)) yields an element of the set s, which one is
\* the set's iteration order: any of them here.
BasicPath ==
    /\ pc = "START"
    /\ ~ check_if_no_pref_then_return_None(preferences)
    /\ is_basic_case_func(budget, preferences)
    /\ \E first \in [Range(N) -> Range(S)] :
          /\ \A i \in Range(N) : first[i] \in preferences[i]
          /\ decomposition' = calc_decomposition_for_basic_case(budget, preferences, first)
    /\ path' = "basic"
    /\ pc' = "DONE"
    /\ result' = "matrix"
    /\ UNCHANGED <<budget, preferences, share_per_citizen, j, interested_citizens,
                   subject_budget, pos>>

\* lines 105-108
GeneralPath ==
    /\ pc = "START"
    /\ ~ check_if_no_pref_then_return_None(preferences)
    /\ ~ is_basic_case_func(budget, preferences)
    /\ share_per_citizen' = calculate_total_budget_and_share(budget, N)[2]
    /\ decomposition' = ZeroMatrix(N, S)
    /\ path' = "general"
    /\ pc' = "GENERAL_PATH"
    /\ j' = 0
    /\ UNCHANGED <<budget, preferences, result, interested_citizens, subject_budget, pos>>

\* line 110 entering the body, line 111 calling allocate_budget_for_subject,
\* lines 26-36 of it: the two feasibility checks.
AllocateBegin ==
    /\ pc = "GENERAL_PATH"
    /\ j < S
    /\ LET sb == InUnits(budget[j], N)
           interested == find_interested_citizens(preferences, j, N)
       IN  IF \/ (Len(interested) = 0 /\ sb > 0)
              \/ total_possible_share(share_per_citizen, decomposition, interested) < sb
           THEN /\ pc' = "FAIL_ALLOCATION"
                /\ result' = "None"
                /\ UNCHANGED <<interested_citizens, subject_budget, pos>>
           ELSE /\ pc' = "ALLOCATE"
                /\ interested_citizens' = interested
                /\ subject_budget' = sb
                /\ pos' = 1
                /\ UNCHANGED result
    /\ UNCHANGED <<budget, preferences, path, share_per_citizen, decomposition, j>>

\* lines 38-45: one iteration of the loop over interested_citizens
AllocateCitizen ==
    /\ pc = "ALLOCATE"
    /\ pos <= Len(interested_citizens)
    /\ subject_budget > 0
    /\ LET i == interested_citizens[pos]
           max_possible_allocation == share_per_citizen - Sum(decomposition[i])
           given == possible_allocation(max_possible_allocation, subject_budget)
       IN  /\ decomposition' =
                [decomposition EXCEPT ![i][j] = decomposition[i][j] + given]
           /\ subject_budget' = subject_budget - given
    /\ pos' = pos + 1
    /\ UNCHANGED <<budget, preferences, pc, path, result, share_per_citizen, j,
                   interested_citizens>>

\* lines 39-40 and 47: the loop ends (exhausted, or break) and the call returns
\* True; line 110 moves to the next subject.
AllocateReturn ==
    /\ pc = "ALLOCATE"
    /\ (pos > Len(interested_citizens) \/ subject_budget <= 0)
    /\ pc' = "GENERAL_PATH"
    /\ j' = j + 1
    /\ interested_citizens' = << >>
    /\ subject_budget' = 0
    /\ pos' = 0
    /\ UNCHANGED <<budget, preferences, path, result, share_per_citizen, decomposition>>

\* lines 114-117
Verify ==
    /\ pc = "GENERAL_PATH"
    /\ j = S
    /\ IF verify_allocation(decomposition, share_per_citizen)
       THEN pc' = "DONE" /\ result' = "matrix"
       ELSE pc' = "FAIL_VERIFY" /\ result' = "None"
    /\ UNCHANGED <<budget, preferences, path, share_per_citizen, decomposition, j,
                   interested_citizens, subject_budget, pos>>

Next ==
    \/ FailEmptyPref
    \/ BasicPath
    \/ GeneralPath
    \/ AllocateBegin
    \/ AllocateCitizen
    \/ AllocateReturn
    \/ Verify

Spec == Init /\ [][Next]_vars

----------------------------------------------------------------------------
\* Vocabulary of the properties

Returned == result = "matrix"
NoSolution == result = "None"
Terminated == result # "pending"

\* total_budget / N, in units of 1/N
Share == calculate_total_budget_and_share(budget, N)[2]

RowSum(i) == Sum(decomposition[i])
ColumnSum(c) == SumOver([i \in Range(N) |-> decomposition[i][c]], Range(N))

TypeOK ==
    /\ pc \in {"START", "FAIL_EMPTY_PREF", "DONE", "GENERAL_PATH", "ALLOCATE",
               "FAIL_ALLOCATION", "FAIL_VERIFY"}
    /\ path \in {"none", "basic", "general"}
    /\ result \in {"pending", "None", "matrix"}
    /\ j \in 0 .. S

----------------------------------------------------------------------------
\* Feasibility: a matrix with the three invariants exists.  Cells range over
\* the multiples of 1/N up to the column's budget; column col of subject c is
\* a split of budget[c] among the citizens that prefer c.

IsColumn(col, c) ==
    /\ \A i \in Range(N) : c \notin preferences[i] => col[i] = 0
    /\ SumOver(col, Range(N)) = InUnits(budget[c], N)

ColumnsOf(c) ==
    {col \in [Range(N) -> 0 .. InUnits(budget[c], N)] : IsColumn(col, c)}

Feasible ==
    \E M \in [Range(S) -> UNION {ColumnsOf(c) : c \in Range(S)}] :
        /\ \A c \in Range(S) : IsColumn(M[c], c)
        /\ \A i \in Range(N) :
              SumOver([c \in Range(S) |-> M[c][i]], Range(S)) = Share

----------------------------------------------------------------------------
\* C1: with N >= 1 citizens, whenever a matrix with row sums total/N, column
\* sums budget[j] and zero cells outside the preference sets exists,
\* find_decomposition returns a matrix (it returns None only when none exists).
DecidesFeasibility ==
    (Terminated /\ N >= 1 /\ NoSolution) => ~ Feasible

\* C2: every row of every returned matrix, from the basic or the general
\* path, sums to total_budget / N.
ShareInvariant ==
    Returned => \A i \in Range(N) : RowSum(i) = Share

\* C3: every column c of every returned matrix, from the basic or the general
\* path, sums to budget[c].
ColumnConservation ==
    Returned => \A c \in Range(S) : ColumnSum(c) = InUnits(budget[c], N)

\* C4: in the returned matrix and in every intermediate state of the matrix,
\* a positive cell (i, c) has c in citizen i's preference set.
PreferenceRespect ==
    path # "none" =>
        \A i \in Range(N), c \in Range(S) :
            decomposition[i][c] > 0 => c \in preferences[i]

PreferenceRespectWitness ==
    /\ pc = "ALLOCATE"
    /\ \E i \in Range(N) : decomposition[i][j] > 0
    /\ \E i \in Range(N) : j \notin preferences[i]
    /\ subject_budget > 0

\* C5: when some citizen's preference set is empty the result is None, decided
\* at the first check: neither the basic case nor any allocation is run, also
\* when the input passes the basic-case test.
EmptyPreferenceNoSolution ==
    ((\E i \in Range(N) : preferences[i] = {}) /\ pc # "START") =>
        (pc = "FAIL_EMPTY_PREF" /\ NoSolution /\ path = "none")

EmptyPreferenceNoSolutionWitness ==
    /\ \E i \in Range(N) : preferences[i] = {}
    /\ \A c \in Range(S) : Cardinality({i \in Range(N) : c \in preferences[i]}) = 1
    /\ Sum(budget) >= N
    /\ S >= 1
    /\ NoSolution

\* C6: when every subject occurs exactly once over all preference sets, no
\* preference set is empty and the total budget is at least N, a matrix is
\* returned in which column c holds budget[c] in the row of the one citizen
\* that prefers c and 0 in every other row.
BasicCaseShortcut ==
    ( /\ \A c \in Range(S) : Cardinality({i \in Range(N) : c \in preferences[i]}) = 1
      /\ \A i \in Range(N) : preferences[i] # {}
      /\ Sum(budget) >= N
      /\ pc # "START" ) =>
        /\ Returned
        /\ \A i \in Range(N), c \in Range(S) :
              decomposition[i][c] =
                  IF c \in preferences[i] THEN InUnits(budget[c], N) ELSE 0

\* C7: with no citizen the share is 0, and the result is None when some
\* budget is positive and the empty matrix otherwise, for every number of
\* subjects.
NoCitizens ==
    N = 0 =>
        /\ Share = 0
        /\ share_per_citizen = 0
        /\ pc \notin {"FAIL_EMPTY_PREF", "FAIL_VERIFY"}
        /\ Terminated => (NoSolution <=> \E c \in Range(S) : budget[c] > 0)
        /\ Returned => decomposition = << >>

NoCitizensWitness ==
    /\ N = 0
    /\ S >= 2
    /\ NoSolution
    /\ budget[S - 1] > 0
    /\ budget[0] = 0

\* C8: in the general path every cell is >= 0 and every row sum is at most
\* the share, in every state during and after each allocation step.
CapacityCap ==
    path = "general" =>
        \A i \in Range(N) :
            /\ \A c \in Range(S) : decomposition[i][c] >= 0
            /\ RowSum(i) <= share_per_citizen

CapacityCapWitness ==
    /\ pc = "ALLOCATE"
    /\ \E i \in Range(N) : RowSum(i) = share_per_citizen /\ share_per_citizen > 0
    /\ \E i \in Range(N) : 0 < RowSum(i) /\ RowSum(i) < share_per_citizen
    /\ subject_budget > 0

\* A column the loop of line 110 has not reached.
Unprocessed(c) == c > j \/ (c = j /\ pc \in {"GENERAL_PATH", "FAIL_ALLOCATION"})

FilledInOrder ==
    path = "general" =>
        /\ \A c \in Range(S) :
              Unprocessed(c) => \A i \in Range(N) : decomposition[i][c] = 0
        /\ \A c \in Range(S), i2 \in Range(N) :
              decomposition[i2][c] > 0 =>
                  \A i \in Range(N) :
                      (i < i2 /\ c \in preferences[i]) => RowSum(i) = share_per_citizen

AllocationStep ==
    /\ j' \in {j, j + 1}
    /\ pc = "ALLOCATE" =>
          /\ \A i \in Range(N), c \in Range(S) :
                (c # j \/ j \notin preferences[i]) =>
                    decomposition'[i][c] = decomposition[i][c]
          /\ pos' = pos + 1 =>
                LET i == interested_citizens[pos]
                IN  /\ decomposition'[i][j] - decomposition[i][j] =
                          Min(share_per_citizen - RowSum(i), subject_budget)
                    /\ \A q \in 1 .. (pos - 1) : interested_citizens[q] < i

\* C9: subjects are processed in ascending index; within a step the interested
\* citizens are visited in ascending index, each receiving min(remaining
\* capacity, remaining subject budget); so a citizen that received a positive
\* amount of subject c has every interested citizen before it filled to the
\* share; a step changes neither another column nor a non-interested row.
GreedyFillOrder ==
    [] FilledInOrder /\ [][AllocationStep]_vars

GreedyFillOrderWitness ==
    /\ pc = "DONE"
    /\ path = "general"
    /\ \E c \in Range(S), i \in Range(N), i2 \in Range(N) :
          /\ i < i2
          /\ c \in preferences[i]
          /\ decomposition[i][c] > 0
          /\ decomposition[i][c] < share_per_citizen
          /\ decomposition[i2][c] > 0

\* C10: in the general path, when every subject has been allocated every row
\* sum equals the share, so the verifier accepts and FAIL_VERIFY is not
\* reached; a None of the general path comes from FAIL_ALLOCATION, at a
\* subject with no endorser and a positive budget or with too little capacity
\* among its endorsers.
VerifierNeverRejects ==
    /\ pc # "FAIL_VERIFY"
    /\ (pc = "GENERAL_PATH" /\ j = S) =>
          \A i \in Range(N) : RowSum(i) = share_per_citizen
    /\ (path = "general" /\ NoSolution) =>
          /\ pc = "FAIL_ALLOCATION"
          /\ LET E == {i \in Range(N) : j \in preferences[i]}
             IN  \/ (E = {} /\ budget[j] > 0)
                 \/ SumOver([i \in Range(N) |-> share_per_citizen - RowSum(i)], E)
                        < InUnits(budget[j], N)

VerifierNeverRejectsWitness ==
    /\ pc = "GENERAL_PATH"
    /\ j = S
    /\ N >= 2
    /\ S >= 2
    /\ \E i \in Range(N) : Cardinality({c \in Range(S) : decomposition[i][c] > 0}) >= 2

=============================================================================
